---- MODULE Spec2Model ----
(***************************************************************************)
(* Model of paracom's boundary-detection pipeline (src/src/paracom/        *)
(* paracom.py): split_nl_into_windows, detect_conversation_turns_single    *)
(* (line filter, window loop, oracle retry/parse protocol, margin filter), *)
(* the majority vote of main and insert_blank_lines.                       *)
(*                                                                         *)
(* Strings are sequences of one-character strings, so that startswith,     *)
(* split, replace, the regular expression and int() are computed, not      *)
(* assumed.  Python lists are sequences; Python sets are sets.             *)
(***************************************************************************)
EXTENDS Integers, Sequences, FiniteSets, TLC

VARIABLES
    lines,              \* List[str] given to detect_conversation_turns_single
    skip_line_prefixes, \* set of prefixes (strings)
    window_size, overlap, boundary_margin,
    trials,             \* args.trials
    pc,                 \* position of the control flow
    filtered,           \* filtered_number_and_lines, as the list of line numbers
    i,                  \* loop variable of split_nl_into_windows
    windows,            \* list of windows, each a list of line numbers
    wi,                 \* index of the window being processed (0-based)
    attempt,            \* oracle requests issued so far for window wi
    content,            \* text of the last oracle response
    nums,               \* Optional[List[int]] parsed for window wi
    detected_turns,     \* set of accepted line numbers of the running pass
    trial_results,      \* results of the finished passes, each a sorted list
    final_turn_points,  \* sorted list computed by main
    final_text          \* list of output lines built by insert_blank_lines

vars == <<lines, skip_line_prefixes, window_size, overlap, boundary_margin,
          trials, pc, filtered, i, windows, wi, attempt, content, nums,
          detected_turns, trial_results, final_turn_points, final_text>>

----------------------------------------------------------------------------
(* Bounds of the model *)

\* longest oracle response explored by the parse specification
MaxContentLen == 6
\* most lines given to one detection pass
MaxLines == 5
\* largest window_size / overlap / boundary_margin explored
MaxWindowSize == 3
MaxMargin == 2
\* cap on the window list, reached only when overlap >= window_size
MaxWindows == 10
\* most skipped lines of the longer inputs
MaxDropped == 2
\* most lines given to split_nl_into_windows alone
MaxSplitLines == 8
\* most lines and trials explored for main
MaxMainLines == 3
MaxTrials == 3

(* Program constants *)

\* range(5): attempts per window
MaxAttempts == 5
\* defaults of detect_conversation_turns_single, which main relies on
DefaultWindowSize == 30
DefaultOverlap == 10
DefaultBoundaryMargin == 5

\* Python's None for Optional[List[int]]: a value no parse returns
None == <<-1>>
\* content before the first response
NoResponse == <<"">>

----------------------------------------------------------------------------
(* Python helpers *)

Min(a, b) == IF a < b THEN a ELSE b
Max(a, b) == IF a > b THEN a ELSE b

SeqToSet(s) == {s[k] : k \in 1..Len(s)}

\* s[a:b] for a Python list, negative indices included
PySlice(s, a, b) ==
    LET n  == Len(s)
        lo == IF a < 0 THEN Max(a + n, 0) ELSE Min(a, n)
        hi == IF b < 0 THEN Max(b + n, 0) ELSE Min(b, n)
    IN  IF hi <= lo THEN <<>> ELSE SubSeq(s, lo + 1, hi)

\* line.startswith(prefix)
StartsWith(line, prefix) ==
    /\ Len(prefix) <= Len(line)
    /\ SubSeq(line, 1, Len(prefix)) = prefix

\* sorted(S) for a set of integers
RECURSIVE Sorted(_)
Sorted(S) ==
    IF S = {} THEN <<>>
    ELSE LET m == CHOOSE x \in S : \A y \in S : x <= y
         IN  <<m>> \o Sorted(S \ {m})

\* str.split(sep) for a one-character separator
RECURSIVE SplitOn(_, _)
SplitOn(s, sep) ==
    IF \A k \in 1..Len(s) : s[k] # sep THEN <<s>>
    ELSE LET p == CHOOSE k \in 1..Len(s) :
                      s[k] = sep /\ \A j \in 1..(k - 1) : s[j] # sep
         IN  <<SubSeq(s, 1, p - 1)>> \o SplitOn(SubSeq(s, p + 1, Len(s)), sep)

\* content.replace("\n", ",")
ReplaceNewlines(s) == [k \in 1..Len(s) |-> IF s[k] = "\n" THEN "," ELSE s[k]]

DigitChars == <<"0", "1", "2", "3", "4", "5", "6", "7", "8", "9">>
IsDigit(c) == \E k \in 1..10 : DigitChars[k] = c
DigitVal(c) == (CHOOSE k \in 1..10 : DigitChars[k] = c) - 1
\* \s of the regular expression (and what int() strips)
IsSpace(c) == c \in {" ", "\t", "\n", "\r"}

\* re.match(r"^\d+(,\s*\d+)*$", s): state 0 expects the first digit, state 1
\* is inside a number (accepting), state 2 follows a comma
RECURSIVE MatchFrom(_, _, _)
MatchFrom(s, k, q) ==
    IF k > Len(s) THEN
        \* "$" also matches before one trailing newline; that case is the
        \* transition on "\n" from state 1 below
        q = 1
    ELSE LET c == s[k] IN
         CASE q = 0 -> IsDigit(c) /\ MatchFrom(s, k + 1, 1)
           [] q = 1 -> \/ IsDigit(c) /\ MatchFrom(s, k + 1, 1)
                       \/ c = "," /\ MatchFrom(s, k + 1, 2)
                       \/ c = "\n" /\ k = Len(s)
           [] q = 2 -> \/ IsSpace(c) /\ MatchFrom(s, k + 1, 2)
                       \/ IsDigit(c) /\ MatchFrom(s, k + 1, 1)
           [] OTHER -> FALSE

MatchesCsv(s) == MatchFrom(s, 1, 0)

\* int(numstr) for whitespace-padded decimal digits
RECURSIVE DecimalValue(_, _)
DecimalValue(s, acc) ==
    IF s = <<>> THEN acc
    ELSE IF IsSpace(Head(s)) THEN DecimalValue(Tail(s), acc)
    ELSE DecimalValue(Tail(s), 10 * acc + DigitVal(Head(s)))

PyInt(numstr) == DecimalValue(numstr, 0)

\* [int(numstr) for numstr in s.split(",")]
IntList(s) ==
    LET parts == SplitOn(s, ",")
    IN  [k \in 1..Len(parts) |-> PyInt(parts[k])]

\* the lines of the response that match the pattern (csv_lines)
CsvLines(c) == SelectSeq(SplitOn(c, "\n"), MatchesCsv)

\* mutant: the first matching line taken whenever there is one
ParseResponse_FirstMatch(c) ==
    IF Len(CsvLines(c)) >= 1 THEN IntList(CsvLines(c)[1])
    ELSE IF MatchesCsv(ReplaceNewlines(c)) THEN IntList(ReplaceNewlines(c))
    ELSE None

\* one attempt's parse of the response: the list, or None
ParseResponse(c) ==
    IF Len(CsvLines(c)) = 1 THEN IntList(CsvLines(c)[1])
    ELSE IF MatchesCsv(ReplaceNewlines(c)) THEN IntList(ReplaceNewlines(c))
    ELSE None

----------------------------------------------------------------------------
(* split_nl_into_windows *)

\* number_and_lines[i : i + window_size]
WindowAt(k) == PySlice(filtered, k, k + window_size)

\* mutants of the stride: one line too far; the overlap forgotten
NextStart_SkipsLine(k) == k + window_size - overlap + 1
NextStart_NoOverlap(k) == k + window_size

\* i += window_size - overlap
NextStart(k) == k + window_size - overlap

\* "if i + window_size >= len(number_and_lines): break"
LastWindowAt(k) == k + window_size >= Len(filtered)

\* The for loop of detect_conversation_turns_single reaches window k of ws:
\* it starts on it ("nums = None", first attempt next), or it is over and the
\* function is at its return statement, its per-window locals dead.  Every
\* window of a terminated partition is non-empty, so "if not window:
\* continue" is never taken (C2_WindowCoverage states this).
EnterWindow(k, ws) ==
    /\ wi' = k
    /\ nums' = None
    /\ attempt' = 0
    /\ pc' = IF k < Len(ws) THEN "chat" ELSE "return"

\* one iteration of the while loop: append the window, then break (and
\* return to the caller, which starts its for loop) or advance
SplitStep ==
    /\ pc = "split"
    /\ i < Len(filtered)
    /\ Len(windows) < MaxWindows
    /\ windows' = Append(windows, WindowAt(i))
    /\ IF LastWindowAt(i)
       THEN /\ i' = i
            /\ EnterWindow(0, windows')
       ELSE /\ i' = NextStart(i)
            /\ UNCHANGED <<pc, wi, nums, attempt>>
    /\ UNCHANGED <<lines, skip_line_prefixes, window_size, overlap,
                   boundary_margin, trials, filtered, content,
                   detected_turns, trial_results, final_turn_points,
                   final_text>>

\* the while condition is false on entry (empty input)
SplitExit ==
    /\ pc = "split"
    /\ ~(i < Len(filtered))
    /\ EnterWindow(0, windows)
    /\ UNCHANGED <<lines, skip_line_prefixes, window_size, overlap,
                   boundary_margin, trials, filtered, i, windows,
                   content, detected_turns, trial_results,
                   final_turn_points, final_text>>

----------------------------------------------------------------------------
(* detect_conversation_turns_single *)

\* mutant: the prefix test left out
FilterLines_KeepsPrefixed ==
    LET Keep(n) == lines[n] # <<>>
    IN  SelectSeq([n \in 1..Len(lines) |-> n], Keep)

\* the line numbers kept by the filter loop, in order
FilterLines ==
    LET Keep(n) == /\ lines[n] # <<>>
                   /\ ~\E prefix \in skip_line_prefixes :
                          StartsWith(lines[n], prefix)
    IN  SelectSeq([n \in 1..Len(lines) |-> n], Keep)

\* number, filter, and enter split_nl_into_windows
DetectEntry ==
    /\ pc = "detect"
    /\ filtered' = FilterLines
    /\ i' = 0
    /\ windows' = <<>>
    /\ wi' = 0
    /\ attempt' = 0
    /\ nums' = None
    /\ content' = NoResponse
    /\ detected_turns' = {}
    /\ pc' = "split"
    /\ UNCHANGED <<lines, skip_line_prefixes, window_size, overlap,
                   boundary_margin, trials, trial_results,
                   final_turn_points, final_text>>

first_line_num(k) == windows[k + 1][1]
last_line_num(k) == windows[k + 1][Len(windows[k + 1])]

\* mutant: the margin applied one line too far
lower_bound_OneMore(k) ==
    IF k # 0 THEN first_line_num(k) + boundary_margin + 1 ELSE first_line_num(k)

lower_bound(k) ==
    IF k # 0 THEN first_line_num(k) + boundary_margin ELSE first_line_num(k)

\* mutant: no margin at the right edge
upper_bound_NoMargin(k) == last_line_num(k)

upper_bound(k) ==
    IF k # Len(windows) - 1 THEN last_line_num(k) - boundary_margin
    ELSE last_line_num(k)

window_line_set(k) == SeqToSet(windows[k + 1])

\* mutant: the membership test left out
Accepted_NoMembership(k, ns) ==
    {num \in SeqToSet(ns) : lower_bound(k) <= num /\ num <= upper_bound(k)}

\* the numbers of the parsed list ns that the final loop adds for window k
Accepted(k, ns) ==
    {num \in SeqToSet(ns) :
        num \in window_line_set(k) /\ lower_bound(k) <= num /\ num <= upper_bound(k)}

\* mutant: the break after a successful parse left out
RetryAgain_NoBreak(r, n) == n < MaxAttempts

\* whether the retry loop goes on after the n-th response, parsed to r
RetryAgain(r, n) == r = None /\ n < MaxAttempts

\* one attempt: a request, its response c, and the parse of c
Chat(c) ==
    /\ pc = "chat"
    /\ content' = c
    /\ attempt' = attempt + 1
    /\ nums' = ParseResponse(c)
    /\ pc' = IF RetryAgain(ParseResponse(c), attempt + 1) THEN "chat" ELSE "filter"
    /\ UNCHANGED <<lines, skip_line_prefixes, window_size, overlap,
                   boundary_margin, trials, filtered, i, windows, wi,
                   detected_turns, trial_results, final_turn_points,
                   final_text>>

\* what the window adds to detected_turns after the retry loop
Contribution(k, ns) == IF ns = None THEN {} ELSE Accepted(k, ns)

\* after the retry loop: abstain or add the accepted numbers, then go on
\* with the next window
EndWindow ==
    /\ pc = "filter"
    /\ detected_turns' = detected_turns \cup Contribution(wi, nums)
    /\ EnterWindow(wi + 1, windows)
    /\ UNCHANGED <<lines, skip_line_prefixes, window_size, overlap,
                   boundary_margin, trials, filtered, i, windows,
                   content, trial_results, final_turn_points, final_text>>

\* "return sorted(detected_turns)" to a direct caller
DetectReturn ==
    /\ pc = "return"
    /\ trial_results' = <<Sorted(detected_turns)>>
    /\ pc' = "returned"
    /\ UNCHANGED <<lines, skip_line_prefixes, window_size, overlap,
                   boundary_margin, trials, filtered, i, windows, wi, attempt,
                   content, nums, detected_turns, final_turn_points,
                   final_text>>

----------------------------------------------------------------------------
(* main and insert_blank_lines *)

\* Counter.update(trial): one more occurrence of every element of the list
RECURSIVE CounterUpdate(_, _)
CounterUpdate(counter, trial) ==
    IF trial = <<>> THEN counter
    ELSE LET num == Head(trial)
             old == IF num \in DOMAIN counter THEN counter[num] ELSE 0
         IN  CounterUpdate(
                 [n \in DOMAIN counter \cup {num} |->
                     IF n = num THEN old + 1 ELSE counter[n]],
                 Tail(trial))

\* counter = Counter(); for trial in trial_results: counter.update(trial)
RECURSIVE CountTrials(_, _)
CountTrials(counter, results) ==
    IF results = <<>> THEN counter
    ELSE CountTrials(CounterUpdate(counter, Head(results)), Tail(results))

\* mutant: the "+ 1" left out
Threshold_Half(t) == t \div 2

\* threshold = args.trials // 2 + 1
Threshold(t) == (t \div 2) + 1

\* the merge of the trial results when trials > 1
Vote(results, t) ==
    LET counter == CountTrials(<<>>, results)
    IN  Sorted({num \in DOMAIN counter : counter[num] >= Threshold(t)})

\* insert_blank_lines: the list of output lines that is joined with "\n"
RECURSIVE InsertFrom(_, _, _)
InsertFrom(ls, turn_set, idx) ==
    IF idx > Len(ls) THEN <<>>
    ELSE (IF idx \in turn_set THEN <<(<<>>), ls[idx]>> ELSE <<ls[idx]>>)
         \o InsertFrom(ls, turn_set, idx + 1)

insert_blank_lines(ls, turn_points) == InsertFrom(ls, SeqToSet(turn_points), 1)

\* main calls the detection pass (once, or inside the trial loop)
MainCall ==
    /\ pc = "main"
    /\ pc' = "detect"
    /\ UNCHANGED <<lines, skip_line_prefixes, window_size, overlap,
                   boundary_margin, trials, filtered, i, windows, wi, attempt,
                   content, nums, detected_turns, trial_results,
                   final_turn_points, final_text>>

\* the pass returns to main: single trial, or one more trial of the loop
MainCollect ==
    /\ pc = "return"
    /\ trial_results' = Append(trial_results, Sorted(detected_turns))
    /\ IF trials <= 1
       THEN /\ final_turn_points' = Sorted(detected_turns)
            /\ pc' = "assemble"
       ELSE /\ final_turn_points' = final_turn_points
            /\ pc' = IF Len(trial_results) + 1 < trials THEN "main" ELSE "vote"
    /\ UNCHANGED <<lines, skip_line_prefixes, window_size, overlap,
                   boundary_margin, trials, filtered, i, windows, wi, attempt,
                   content, nums, detected_turns, final_text>>

\* the counter and the threshold filter
MainVote ==
    /\ pc = "vote"
    /\ final_turn_points' = Vote(trial_results, trials)
    /\ pc' = "assemble"
    /\ UNCHANGED <<lines, skip_line_prefixes, window_size, overlap,
                   boundary_margin, trials, filtered, i, windows, wi, attempt,
                   content, nums, detected_turns, trial_results, final_text>>

\* final_text = insert_blank_lines(processed_lines, final_turn_points)
MainAssemble ==
    /\ pc = "assemble"
    /\ final_text' = insert_blank_lines(lines, final_turn_points)
    /\ pc' = "done"
    /\ UNCHANGED <<lines, skip_line_prefixes, window_size, overlap,
                   boundary_margin, trials, filtered, i, windows, wi, attempt,
                   content, nums, detected_turns, trial_results,
                   final_turn_points>>

----------------------------------------------------------------------------
(* Inputs *)

SeqsUpTo(S, n) == UNION {[1..k -> S] : k \in 0..n}

\* str(n) for n >= 0
RECURSIVE Str(_)
Str(n) == IF n < 10 THEN <<DigitChars[n + 1]>>
          ELSE Str(n \div 10) \o <<DigitChars[(n % 10) + 1]>>

\* line texts of main, which drops empty lines when it reads its input
MainTexts == {<<"a">>, <<"#", "a">>}
\* no prefix; "#"; and "a" together with a prefix longer than any line
PrefixSets == {{}, {<<"#">>}, {<<"a">>, <<"#", "a", "b">>}}
\* line texts of a pass called directly: ordinary, or skipped by the prefix
\* "#"; the longer inputs also have empty lines
PassTexts == {<<"a">>, <<"#", "a">>}
LongTexts == PassTexts \cup {<<>>}

\* responses of the oracle during a pass: unparseable text, one number
\* (inside or outside any window), or two numbers on separate lines
PassContents(n) ==
    {<<"x">>} \cup {Str(c) : c \in 0..(n + 1)}
              \cup {Str(c) \o <<"\n">> \o Str(c + 1) : c \in {1}}

\* characters of the responses explored by the parse specification
ContentChars == {"1", "2", ",", " ", "\n", "x"}

Idle ==
    /\ filtered = <<>>
    /\ i = 0
    /\ windows = <<>>
    /\ wi = 0
    /\ attempt = 0
    /\ content = NoResponse
    /\ nums = None
    /\ detected_turns = {}
    /\ trial_results = <<>>
    /\ final_turn_points = <<>>
    /\ final_text = <<>>

----------------------------------------------------------------------------
(* Specification of a detection pass called with any configuration:        *)
(* short inputs with every configuration, overlap >= window_size included, *)
(* and longer inputs with few skipped lines under the largest window, so   *)
(* that an interior window has gaps in its line numbers.                   *)

Dropped(ls) == {n \in 1..Len(ls) : ls[n] # <<"a">>}

ShortInput ==
    /\ lines \in SeqsUpTo(PassTexts, MaxLines)
    /\ window_size \in 1..MaxWindowSize
    /\ overlap \in 0..MaxWindowSize
    /\ boundary_margin \in 0..MaxMargin

LongInput ==
    /\ lines \in {ls \in SeqsUpTo(LongTexts, MaxLines + 2) :
                     Len(ls) > MaxLines /\ Cardinality(Dropped(ls)) <= MaxDropped}
    /\ window_size = MaxWindowSize
    /\ overlap \in 0..(MaxWindowSize - 1)
    /\ boundary_margin = MaxMargin

Init ==
    /\ ShortInput \/ LongInput
    /\ skip_line_prefixes = {<<"#">>}
    /\ trials = 1
    /\ pc = "detect"
    /\ Idle

Next ==
    \/ DetectEntry
    \/ SplitStep
    \/ SplitExit
    \/ \E c \in PassContents(Len(lines)) : Chat(c)
    \/ EndWindow
    \/ DetectReturn

Spec == Init /\ [][Next]_vars

----------------------------------------------------------------------------
(* Specification of split_nl_into_windows on the filtered lines of longer  *)
(* inputs, for every valid configuration                                   *)

InitWindows ==
    /\ lines \in SeqsUpTo(PassTexts, MaxSplitLines)
    /\ skip_line_prefixes = {<<"#">>}
    /\ window_size \in 1..MaxWindowSize
    /\ overlap \in 0..(window_size - 1)
    /\ boundary_margin \in 0..MaxMargin
    /\ trials = 1
    /\ pc = "detect"
    /\ Idle

NextWindows ==
    \/ DetectEntry
    \/ SplitStep
    \/ SplitExit

SpecWindows == InitWindows /\ [][NextWindows]_vars

----------------------------------------------------------------------------
(* Specification of the parse of one oracle response *)

\* lines 173-186 applied to the response held in content
ParseStep ==
    /\ pc = "parse"
    /\ nums' = ParseResponse(content)
    /\ pc' = "parsed"
    /\ UNCHANGED <<lines, skip_line_prefixes, window_size, overlap,
                   boundary_margin, trials, filtered, i, windows, wi, attempt,
                   content, detected_turns, trial_results, final_turn_points,
                   final_text>>

InitParse ==
    /\ content \in SeqsUpTo(ContentChars, MaxContentLen)
    /\ lines = <<>>
    /\ skip_line_prefixes = {}
    /\ window_size = DefaultWindowSize
    /\ overlap = DefaultOverlap
    /\ boundary_margin = DefaultBoundaryMargin
    /\ trials = 1
    /\ pc = "parse"
    /\ filtered = <<>>
    /\ i = 0
    /\ windows = <<>>
    /\ wi = 0
    /\ attempt = 0
    /\ nums = None
    /\ detected_turns = {}
    /\ trial_results = <<>>
    /\ final_turn_points = <<>>
    /\ final_text = <<>>

NextParse == ParseStep

SpecParse == InitParse /\ [][NextParse]_vars

----------------------------------------------------------------------------
(* Specification of main: the trials, the vote and the assembly.  main     *)
(* passes no window parameters, so the defaults apply, and its lines are   *)
(* non-empty.                                                              *)

InitMain ==
    /\ lines \in SeqsUpTo(MainTexts, MaxMainLines)
    /\ skip_line_prefixes \in PrefixSets
    /\ window_size = DefaultWindowSize
    /\ overlap = DefaultOverlap
    /\ boundary_margin = DefaultBoundaryMargin
    /\ trials \in 0..MaxTrials
    /\ pc = "main"
    /\ Idle

NextMain ==
    \/ MainCall
    \/ DetectEntry
    \/ SplitStep
    \/ SplitExit
    \/ \E c \in PassContents(Len(lines)) : Chat(c)
    \/ EndWindow
    \/ MainCollect
    \/ MainVote
    \/ MainAssemble

SpecMain == InitMain /\ [][NextMain]_vars

----------------------------------------------------------------------------
(* Properties of the window partition (SpecWindows) *)

\* split_nl_into_windows has returned
PartitionDone == pc \in {"chat", "filter", "return", "returned"}

WindowCount == Len(windows)

\* position in the filtered list of the first line of window k (1-based k)
StartPos(k) == CHOOSE p \in 1..Len(filtered) : filtered[p] = windows[k][1]

IsRunOfInput(w) ==
    \E a \in 1..Len(filtered) : \E b \in a..Len(filtered) :
        w = SubSeq(filtered, a, b)

\* C2: with overlap < window_size the partition ends with finitely many
\* windows, each a contiguous non-empty run of at most window_size input
\* lines, whose index sets together are exactly the input indices; an empty
\* input gives no window.
C2_WindowCoverage ==
    /\ pc = "split" =>
          /\ WindowCount <= Len(filtered)
          /\ WindowCount < MaxWindows
    /\ PartitionDone =>
          /\ \A k \in 1..WindowCount :
                /\ IsRunOfInput(windows[k])
                /\ Len(windows[k]) <= window_size
          /\ UNION {SeqToSet(windows[k]) : k \in 1..WindowCount}
                = SeqToSet(filtered)
          /\ (filtered = <<>> => windows = <<>>)

\* several windows, the last one truncated, over an input with skipped lines
C2_Witness ==
    /\ PartitionDone
    /\ WindowCount >= 3
    /\ Len(windows[WindowCount]) < window_size
    /\ Len(filtered) < Len(lines)
    /\ overlap >= 1

\* C3: window 0 starts at the first line, window k+1 starts window_size -
\* overlap lines after window k, and consecutive windows share exactly
\* overlap lines, except possibly the pair that ends with the final window.
C3_StrideAndOverlap ==
    PartitionDone /\ filtered # <<>> =>
        /\ WindowCount >= 1
        /\ StartPos(1) = 1
        /\ \A k \in 1..(WindowCount - 1) :
              /\ StartPos(k + 1) = StartPos(k) + (window_size - overlap)
              /\ (k + 1 < WindowCount =>
                    Cardinality(SeqToSet(windows[k]) \cap SeqToSet(windows[k + 1]))
                        = overlap)

\* three or more windows that overlap, the final one truncated
C3_Witness ==
    /\ PartitionDone
    /\ WindowCount >= 4
    /\ overlap >= 1
    /\ overlap < window_size - 1
    /\ Len(windows[WindowCount]) < window_size

\* the accept range of window k (0-based) holds line number n
InAcceptRange(k, n) ==
    /\ n \in window_line_set(k)
    /\ lower_bound(k) <= n
    /\ n <= upper_bound(k)

\* C10: when no line is skipped and 2 * boundary_margin <= overlap <
\* window_size, every line number lies in the accept range of at least one
\* window that contains it.
C10_NoBlindSpots ==
    (/\ PartitionDone
     /\ Len(filtered) = Len(lines)
     /\ 2 * boundary_margin <= overlap
     /\ overlap < window_size) =>
        \A n \in 1..Len(lines) : \E k \in 0..(WindowCount - 1) : InAcceptRange(k, n)

\* margins that trim, on three or more windows of an unskipped input
C10_Witness ==
    /\ PartitionDone
    /\ Len(filtered) = Len(lines)
    /\ boundary_margin >= 1
    /\ 2 * boundary_margin <= overlap
    /\ WindowCount >= 3
    /\ \E n \in 1..Len(lines) : \E k \in 0..(WindowCount - 1) :
          n \in window_line_set(k) /\ ~InAcceptRange(k, n)

----------------------------------------------------------------------------
(* Properties of one detection pass (Spec) *)

\* the claims' accept range of window k (0-based), from the window itself
ClaimLower(k) ==
    windows[k + 1][1] + (IF k = 0 THEN 0 ELSE boundary_margin)
ClaimUpper(k) ==
    windows[k + 1][Len(windows[k + 1])]
        - (IF k = WindowCount - 1 THEN 0 ELSE boundary_margin)
ClaimAccepts(k, c) ==
    /\ \E p \in 1..Len(windows[k + 1]) : windows[k + 1][p] = c
    /\ ClaimLower(k) <= c
    /\ c <= ClaimUpper(k)

\* the candidates parsed for the current window (none after an abstention)
Candidates == IF nums = None THEN {} ELSE SeqToSet(nums)

IsStrictlyIncreasing(s) == \A p \in 1..(Len(s) - 1) : s[p] < s[p + 1]

C1_State ==
    /\ \A n \in detected_turns : \E k \in 0..(wi - 1) : ClaimAccepts(k, n)
    /\ pc = "returned" =>
          /\ SeqToSet(trial_results[1]) = detected_turns
          /\ IsStrictlyIncreasing(trial_results[1])

C1_Step ==
    /\ pc = "filter" =>
          detected_turns' =
              detected_turns \cup {c \in Candidates : ClaimAccepts(wi, c)}
    /\ pc \notin {"filter", "detect"} => detected_turns' = detected_turns

\* C1: the window just processed adds candidate c to the turn points iff c
\* is in the window's own index set and within [lower, upper] (the margin
\* waived at the outer edge of the first and of the last window); nothing
\* else adds a turn point, so every turn point was accepted by some window
\* and the trial result is the union of the windows' accepted sets.
C1_AcceptedIffInRange == []C1_State /\ [][C1_Step]_vars

\* a pass over three or more windows with a margin has returned a turn point
\* that one of the windows containing it rejects
C1_Witness ==
    /\ pc = "returned"
    /\ WindowCount >= 3
    /\ boundary_margin >= 1
    /\ \E n \in detected_turns : \E k \in 0..(WindowCount - 1) :
          n \in SeqToSet(windows[k + 1]) /\ ~ClaimAccepts(k, n)

C5_State ==
    /\ pc = "chat" => attempt < 5 /\ nums = None
    /\ pc = "filter" =>
          /\ 1 <= attempt /\ attempt <= 5
          /\ (nums = None => attempt = 5)
    /\ pc = "returned" => SeqToSet(trial_results[1]) = detected_turns

C5_Step ==
    /\ pc = "chat" => attempt' = attempt + 1 /\ wi' = wi
    /\ (pc = "filter" /\ nums = None) => detected_turns' = detected_turns
    /\ pc = "filter" =>
          /\ wi' = wi + 1
          /\ pc' = IF wi + 1 < WindowCount THEN "chat" ELSE "return"
    /\ pc # "detect" => detected_turns \subseteq detected_turns'

\* C5: each window gets between 1 and 5 requests, one after the other; a
\* further request is made only while every earlier response of the window
\* failed to parse; after 5 failures the window adds nothing, the pass goes
\* on with the next window, and turn points already or later accepted stay
\* in the trial result.
C5_BoundedRetriesAndAbstention == []C5_State /\ [][C5_Step]_vars

\* a window abstains after its fifth failure, between accepted turn points
\* and further windows
C5_Witness ==
    /\ pc = "filter"
    /\ nums = None
    /\ attempt = 5
    /\ detected_turns # {}
    /\ wi + 1 < WindowCount

\* C6 (as claimed): with overlap >= window_size the pass is rejected before
\* any oracle request is made.
C6_RejectedBeforeAnyRequest ==
    overlap >= window_size => attempt = 0 /\ content = NoResponse

\* the first and the last boundary_margin lines of window k (0-based)
FirstLines(k) ==
    {windows[k + 1][p] : p \in 1..Min(boundary_margin, Len(windows[k + 1]))}
LastLines(k) ==
    {windows[k + 1][p] :
        p \in Max(1, Len(windows[k + 1]) - boundary_margin + 1)..Len(windows[k + 1])}

IsInterior(k) == 0 < k /\ k < WindowCount - 1

HasConsecutiveNumbers(k) ==
    \A p \in 1..(Len(windows[k + 1]) - 1) :
        windows[k + 1][p + 1] = windows[k + 1][p] + 1

\* the turn points the step adds
NewTurns == detected_turns' \ detected_turns

\* every gap in the line numbers comes from a skip prefix
NoEmptyLine == \A n \in 1..Len(lines) : lines[n] # <<>>

C7_OriginalStep ==
    (pc = "filter" /\ IsInterior(wi) /\ NoEmptyLine) =>
        NewTurns \cap (FirstLines(wi) \cup LastLines(wi)) = {}

\* C7 (as claimed): an interior window never accepts one of its first or
\* last boundary_margin lines, also when skipped lines leave gaps in the
\* window's line numbers.
C7_EdgeLinesNeverAccepted == [][C7_OriginalStep]_vars

C7_AmendedStep ==
    pc = "filter" =>
        \A c \in NewTurns :
            /\ wi # 0 => c >= windows[wi + 1][1] + boundary_margin
            /\ wi # WindowCount - 1 =>
                  c <= windows[wi + 1][Len(windows[wi + 1])] - boundary_margin
            /\ (IsInterior(wi) /\ HasConsecutiveNumbers(wi)) =>
                  c \notin FirstLines(wi) \cup LastLines(wi)

\* C7 (amended): a window that is not the first accepts no candidate whose
\* line number is below its first line number + boundary_margin, and one
\* that is not the last accepts none above its last line number -
\* boundary_margin; for an interior window with consecutive line numbers
\* these are exactly its first and last boundary_margin lines.
C7_NumericMarginExclusion == [][C7_AmendedStep]_vars

\* an interior window with a margin has just rejected its own first line,
\* which the oracle proposed
C7_Witness ==
    /\ pc = "chat"
    /\ attempt = 0
    /\ wi >= 2
    /\ boundary_margin >= 1
    /\ content = Str(windows[wi][1])
    /\ windows[wi][1] \notin detected_turns

----------------------------------------------------------------------------
(* Properties of main (SpecMain) *)

FinalSet == SeqToSet(final_turn_points)

\* in how many trial results index n occurs
Occurrences(n) ==
    Cardinality({t \in 1..Len(trial_results) : n \in SeqToSet(trial_results[t])})

Permuted(results, perm) == [t \in 1..Len(results) |-> results[perm[t]]]

FinalComputed == pc \in {"assemble", "done"}

\* C4: for T > 1 trials the final set holds exactly the indices that occur
\* in at least floor(T/2) + 1 of the T trial results; for T = 1 it is the
\* single trial result; the merge gives the same set for every order of the
\* trial results.
C4_MajorityVote ==
    (FinalComputed /\ trials >= 1) =>
        /\ Len(trial_results) = trials
        /\ trials = 1 => final_turn_points = trial_results[1]
        /\ trials > 1 =>
              /\ FinalSet = {n \in 0..(Len(lines) + 1) :
                                Occurrences(n) >= (trials \div 2) + 1}
              /\ \A n \in FinalSet :
                    Occurrences(n) <= trials /\ Occurrences(n) > trials \div 2
              /\ \A perm \in Permutations(1..trials) :
                    Vote(Permuted(trial_results, perm), trials) = final_turn_points

\* three trials: one index in two of them (kept), another in one (dropped)
C4_Witness ==
    /\ pc = "done"
    /\ trials = 3
    /\ \E n \in FinalSet : Occurrences(n) = 2
    /\ \E n \in 1..Len(lines) : Occurrences(n) = 1 /\ n \notin FinalSet

\* line n is empty or starts with one of the skip prefixes
IsSkipped(n) ==
    \/ Len(lines[n]) = 0
    \/ \E prefix \in skip_line_prefixes :
          /\ Len(prefix) <= Len(lines[n])
          /\ \A j \in 1..Len(prefix) : lines[n][j] = prefix[j]

\* how many final turn points are at or before position n
TurnsUpTo(n) == Cardinality({m \in FinalSet : m <= n})

\* C8: a skipped line is in no window, in no trial result and not in the
\* final set; the final set holds only positions of kept lines in the full
\* line sequence, and insert_blank_lines puts its blank lines right before
\* the lines at these positions.
C8_SkippedLinesNeverTurnPoints ==
    /\ \A n \in 1..Len(lines) : IsSkipped(n) =>
          /\ \A k \in 1..WindowCount : n \notin SeqToSet(windows[k])
          /\ n \notin detected_turns
          /\ \A t \in 1..Len(trial_results) : n \notin SeqToSet(trial_results[t])
          /\ n \notin FinalSet
    /\ FinalSet \subseteq {n \in 1..Len(lines) : ~IsSkipped(n)}
    /\ \A t \in 1..Len(trial_results) :
          SeqToSet(trial_results[t]) \subseteq {n \in 1..Len(lines) : ~IsSkipped(n)}
    /\ pc = "done" =>
          /\ Len(final_text) = Len(lines) + Cardinality(FinalSet)
          /\ \A n \in 1..Len(lines) :
                /\ final_text[n + TurnsUpTo(n)] = lines[n]
                /\ n \in FinalSet => final_text[n + TurnsUpTo(n) - 1] = <<>>

\* several trials end with a turn point after a line skipped by prefix,
\* which the last response proposed in vain
C8_Witness ==
    /\ pc = "done"
    /\ trials >= 2
    /\ \E n \in 1..Len(lines) :
          /\ IsSkipped(n)
          /\ lines[n] # <<>>
          /\ content = Str(n)
          /\ \E m \in FinalSet : m > n

----------------------------------------------------------------------------
(* Properties of the parse of one response (SpecParse) *)

ResponseLines == SplitOn(content, "\n")
MatchingLines == {p \in 1..Len(ResponseLines) : MatchesCsv(ResponseLines[p])}
Joined == [p \in 1..Len(content) |-> IF content[p] = "\n" THEN "," ELSE content[p]]

WithoutSpaces(s) == SelectSeq(s, LAMBDA ch : ch # " ")

RECURSIVE DropLeadingSpaces(_)
DropLeadingSpaces(s) ==
    IF s # <<>> /\ Head(s) = " " THEN DropLeadingSpaces(Tail(s)) ELSE s

\* the list written back as text: decimal numbers joined by commas
RECURSIVE Render(_)
Render(ns) ==
    IF Len(ns) = 1 THEN Str(ns[1])
    ELSE Str(ns[1]) \o <<",">> \o Render(Tail(ns))

Parsed == pc = "parsed"

\* C9 (as claimed, last sentence): two or more matching lines together with
\* a non-matching line are a parse failure.
C9_MixedLinesAlwaysFail ==
    (/\ Parsed
     /\ Cardinality(MatchingLines) >= 2
     /\ Cardinality(MatchingLines) < Len(ResponseLines)) => nums = None

\* C9 (amended): (1) exactly one matching line: the candidates are that
\* line's integers; (2) otherwise, if the response with its line breaks
\* replaced by commas matches, the candidates are all its integers; (3)
\* otherwise the attempt fails; a success has at least one integer.  With
\* two or more matching lines and a non-matching line the attempt fails
\* unless the first line matches and every non-matching line is spaces
\* followed by a matching list; an empty line makes it fail.
C9_LayeredParse ==
    Parsed =>
        /\ Cardinality(MatchingLines) = 1 =>
              /\ nums # None
              /\ \A p \in MatchingLines :
                    Render(nums) = WithoutSpaces(ResponseLines[p])
        /\ (Cardinality(MatchingLines) # 1 /\ MatchesCsv(Joined)) =>
              /\ nums # None
              /\ Render(nums) = WithoutSpaces(Joined)
        /\ (Cardinality(MatchingLines) # 1 /\ ~MatchesCsv(Joined)) => nums = None
        /\ nums # None => Len(nums) >= 1
        /\ (/\ Cardinality(MatchingLines) >= 2
            /\ Cardinality(MatchingLines) < Len(ResponseLines)) =>
              /\ nums # None <=>
                    /\ 1 \in MatchingLines
                    /\ \A p \in 1..Len(ResponseLines) :
                          /\ ResponseLines[p] # <<>>
                          /\ MatchesCsv(DropLeadingSpaces(ResponseLines[p]))
              /\ (\E p \in 1..Len(ResponseLines) : ResponseLines[p] = <<>>)
                    => nums = None

\* two matching lines and a space-padded one parse as one list
C9_Witness ==
    /\ Parsed
    /\ Cardinality(MatchingLines) >= 2
    /\ Cardinality(MatchingLines) < Len(ResponseLines)
    /\ nums # None
    /\ Len(nums) = 3

====
